---- MODULE Spec2Model ----
(***************************************************************************)
(* Model of log-duration-visualizer (src/src/main.rs): the ingest loop of  *)
(* run(), the sort, the lane packing loop, the group offset loop and the   *)
(* emission of the chart, as one state machine.                            *)
(*                                                                         *)
(* The texts of a log count time in ticks of 1/TicksPerSecond seconds.     *)
(* An instant is the time since the anchor date 0001-01-01T00:00:00 that   *)
(* the time-only timestamp parse uses.  The program holds instants and     *)
(* durations to the nanosecond, and the whole seconds it prints in 64      *)
(* bits; the model holds each of them as [hi, lo, ns]: hi * Radix + lo     *)
(* ticks and ns nanoseconds, so that the largest and the smallest          *)
(* date-time of chrono and the rounding of f64 keep their place.           *)
(*                                                                         *)
(* A log line is represented by what the configured patterns find in it:   *)
(*   durs   - for each duration rule, in list order, its captures          *)
(*            [h, m, s] or NoMatch;                                        *)
(*   ts     - what the timestamp pattern finds: NoMatch, a match whose     *)
(*            group 1 gives no text, or the text of group 1 [date, tod];   *)
(*   colors - the set of color rules whose pattern matches the line.       *)
(***************************************************************************)
EXTENDS Integers, Sequences, FiniteSets, TLC

VARIABLES
    colors,             \* config.colors: for each color rule, its group id
    format,             \* config.timestamp.format: "datetime" or "time"
    pc,                 \* position of run() / main()
    line,               \* the loop variable of the ingest loop
    nread,              \* number of lines read so far
    intervals,          \* Vec<Interval>
    global_start_time,
    global_end_time,
    global_duration,
    lanes,              \* BTreeMap: group id -> (start_lane_id, lane end times)
    total_lanes,
    idx,                \* position of the packing loop, then of the block loop
    out,                \* what has been written to stdout
    err                 \* what ended the run early: the error run() returned
                        \* to main(), or a panic

vars == <<colors, format, pc, line, nread, intervals, global_start_time,
          global_end_time, global_duration, lanes, total_lanes, idx, out, err>>

----------------------------------------------------------------------------
(* Bounds of the model *)

TicksPerSecond == 2
MaxLines == 3
MaxPackLines == 4
MaxGroupLines == 6

Seconds(n) == n * TicksPerSecond

----------------------------------------------------------------------------
(* 64-bit quantities: i64, chrono::Duration, chrono::NaiveDateTime *)

\* the base of the two digits of a number of ticks
Radix == 1000000

\* the nanoseconds of a tick
NsPerTick == 1000000000 \div TicksPerSecond

\* h * Radix + l ticks and n nanoseconds, with 0 <= lo < Radix and
\* 0 <= ns < NsPerTick, so that equal values are equal records
Long3(h, l, n) ==
    LET ticks == l + (n \div NsPerTick)
    IN  [hi |-> h + (ticks \div Radix), lo |-> ticks % Radix, ns |-> n % NsPerTick]

Long(h, l) == Long3(h, l, 0)
FromInt(n) == Long(0, n)
Nanos(n) == Long3(0, 0, n)

LAdd(a, b) == Long3(a.hi + b.hi, a.lo + b.lo, a.ns + b.ns)
LSub(a, b) == Long3(a.hi - b.hi, a.lo - b.lo, a.ns - b.ns)
LNeg(a) == Long3(-a.hi, -a.lo, -a.ns)
LLess(a, b) ==
    \/ a.hi < b.hi
    \/ a.hi = b.hi /\ a.lo < b.lo
    \/ a.hi = b.hi /\ a.lo = b.lo /\ a.ns < b.ns
LLeq(a, b) == a = b \/ LLess(a, b)

\* a times k, for 0 <= k <= 2000
LScale(a, k) == Long3(a.hi * k, a.lo * k, a.ns * k)

\* the whole ticks of a, for a >= 0, divided by k, 1 <= k <= 2000, and
\* rounded down
LDiv(a, k) == Long(a.hi \div k, ((a.hi % k) * Radix + a.lo) \div k)

\* the nanoseconds of a, for a >= 0, modulo k, 1 <= k <= 2048
LMod(a, k) ==
    LET ticks == ((a.hi % k) * (Radix % k) + a.lo) % k
    IN  (ticks * (NsPerTick % k) + a.ns) % k

\* 2^k nanoseconds, for 53 <= k <= 63: 2^53 ns are 9007199 s, 254 ms and
\* 740992 ns
Pow2Nanos(k) ==
    LET m == 2 ^ (k - 53)
    IN  LAdd(LAdd(LScale(LScale(Long(9, 7199), m), TicksPerSecond),
                  LScale(FromInt((254 * m) \div 1000), TicksPerSecond)),
             LAdd(Nanos(((254 * m) % 1000) * 1000000), Nanos(740992 * m)))

\* an instant: the start of the d-th day after the anchor date
Days(d) == LScale(LScale(LScale(FromInt(d), 864), 100), TicksPerSecond)

----------------------------------------------------------------------------
(* Program constants *)

LANE_WIDTH == 20
MIN_GLOBAL_WIDTH == 400

\* Duration::seconds(1)
cutoff == FromInt(Seconds(1))

\* chrono::naive::MAX_DATE.and_hms_nano(23, 59, 59, 999_999_999): the last
\* nanosecond of +262142-12-31, which is 8272402473599.999999999 s after the
\* anchor
MAX_DATETIME ==
    LAdd(LScale(Long(8272402, 473599), TicksPerSecond), Nanos(999999999))

\* chrono::naive::MIN_DATE.and_hms(0, 0, 0): midnight of -262143-01-01, which
\* is 8272465632000 s before the anchor
MIN_DATETIME == LScale(Long(-8272466, 368000), TicksPerSecond)

\* i64::MAX and i64::MIN nanoseconds as durations: 9223372036.854775807 s
\* and -9223372036.854775808 s
I64_MAX_NANOSECONDS ==
    LAdd(LScale(Long(9223, 372036), TicksPerSecond), Nanos(854775807))
I64_MIN_NANOSECONDS == LNeg(LAdd(I64_MAX_NANOSECONDS, Nanos(1)))

\* f64 holds 53 binary digits: every whole number of nanoseconds below 2^53
F64_EXACT_NANOSECONDS == Pow2Nanos(53)

\* what a named group of a duration pattern holds: nothing (the group did not
\* take part in the match), text that f64 does not parse, the text of a
\* finite number, or text that f64 parses to NaN ("NaN"), to +infinity
\* ("inf", "infinity", "1e400") or to -infinity.  The same values, less the
\* first two, are the f64 values of the model: Num(n) is n/TicksPerSecond.
Absent == [kind |-> "absent", v |-> 0]
Bad == [kind |-> "bad", v |-> 0]
Num(n) == [kind |-> "num", v |-> n]
NaN == [kind |-> "nan", v |-> 0]
PosInf == [kind |-> "inf", v |-> 0]
NegInf == [kind |-> "neginf", v |-> 0]

\* a date the fields of which parse under the date-time format although the
\* calendar has no such day (0001-02-30)
NoSuchDate == [kind |-> "nosuchdate", v |-> 0]

\* Option<Captures> of a duration rule and of the timestamp rule.  The text
\* of group 1 of a timestamp match is [date, tod]: the date as a number of
\* days since the anchor and the time of day in ticks, each of them Absent,
\* Bad or (the date) NoSuchDate when the text has it so.  TsNoGroup is a
\* match whose group 1 took no part in it, or holds bytes that are no UTF-8.
NoMatch == [matched |-> FALSE]
Caps(hh, mm, ss) == [matched |-> TRUE, h |-> hh, m |-> mm, s |-> ss]
TsText(d, t) == [matched |-> TRUE, group1 |-> TRUE, date |-> d, tod |-> t]
TsNoGroup == [matched |-> TRUE, group1 |-> FALSE, date |-> Absent, tod |-> Absent]

\* Result<NaiveDateTime, ParseError>
ParseError == [ok |-> FALSE, t |-> FromInt(0)]
Parsed(t) == [ok |-> TRUE, t |-> t]

\* no line is held: before the first read and after the loop
NoLine == [durs |-> <<>>, ts |-> NoMatch, colors |-> {}]

NoError == [kind |-> "none"]

----------------------------------------------------------------------------
(* Helpers of run() *)

\* get_str(&ts_captures, 1): is there text of group 1
get_str(caps) == caps.group1

\* get_float: a named group that did not take part, or whose text f64 does
\* not parse, counts as 0.0; any other text as the f64 it parses to.
get_float(c, name) ==
    IF c[name].kind \in {"absent", "bad"} THEN Num(0) ELSE c[name]

\* `nanoseconds.round() as i64`: the cast saturates
saturate(d) ==
    IF LLess(I64_MAX_NANOSECONDS, d) THEN I64_MAX_NANOSECONDS
    ELSE IF LLess(d, I64_MIN_NANOSECONDS) THEN I64_MIN_NANOSECONDS
    ELSE d

\* the number of binary digits a number of d >= 2^53 nanoseconds has beyond
\* the 53 of f64, counted up from k; beyond 2^63 the cast saturates
RECURSIVE f64_lost_digits(_, _)
f64_lost_digits(d, k) ==
    IF k >= 10 \/ LLess(d, Pow2Nanos(53 + k)) THEN k
    ELSE f64_lost_digits(d, k + 1)

\* the f64 nearest to d >= 0 nanoseconds: a multiple of q = 2^k nanoseconds
\* when d has k digits too many, the nearer one, and of two equally near the
\* one that is an even multiple
nearest_f64(d) ==
    IF LLess(d, F64_EXACT_NANOSECONDS) THEN d
    ELSE LET q == 2 ^ f64_lost_digits(d, 1)
             over == LMod(d, q)
             odd == LMod(d, 2 * q) >= q
         IN  IF over = 0 THEN d
             ELSE IF 2 * over < q \/ (2 * over = q /\ ~odd) THEN LSub(d, Nanos(over))
             ELSE LAdd(d, Nanos(q - over))

\* `* 1e9` of line 82: the product is the f64 nearest to the number of
\* nanoseconds, whatever its sign
times_1e9(d) ==
    IF d.hi >= 0 THEN nearest_f64(d) ELSE LNeg(nearest_f64(LNeg(d)))

\* parse_duration: (h*3600 + m*60 + s) * 1e9 nanoseconds in f64, rounded to
\* a whole number and cast to i64.  A NaN among the three, or infinities of
\* both signs, make the sum NaN, which the cast turns into 0; an infinite
\* sum saturates.  The sum of the three fields is exact in f64 (the fields
\* are whole ticks of less than 2^31); the product is not from 2^53
\* nanoseconds on, and `round()` finds a whole number already.
parse_duration(captures) ==
    LET hours == get_float(captures, "h")
        minutes == get_float(captures, "m")
        seconds == get_float(captures, "s")
        kinds == {hours.kind, minutes.kind, seconds.kind}
    IN  IF "nan" \in kinds \/ {"inf", "neginf"} \subseteq kinds THEN FromInt(0)
        ELSE IF "inf" \in kinds THEN I64_MAX_NANOSECONDS
        ELSE IF "neginf" \in kinds THEN I64_MIN_NANOSECONDS
        ELSE saturate(times_1e9(
                 LAdd(LAdd(LScale(LScale(FromInt(hours.v), 60), 60),
                           LScale(FromInt(minutes.v), 60)),
                      FromInt(seconds.v))))

\* (mutant) the first rule that gives a chartable duration, when there is one
first_chartable_match(l) ==
    LET hits == {i \in DOMAIN l.durs : l.durs[i].matched}
        good == {i \in hits : ~LLess(parse_duration(l.durs[i]), cutoff)}
        from == IF good # {} THEN good ELSE hits
    IN  IF hits = {} THEN NoMatch
        ELSE l.durs[CHOOSE i \in from : \A j \in from : i <= j]

\* config.durations.iter().flat_map(|d| d.pattern.captures(&line)).next()
first_duration_match(l) ==
    LET hits == {i \in DOMAIN l.durs : l.durs[i].matched}
    IN  IF hits = {} THEN NoMatch
        ELSE l.durs[CHOOSE i \in hits : \A j \in hits : i <= j]

\* NaiveDateTime::parse_from_str(end_ts, format): the format must hold the
\* date and the time, and the text an existing date and a time
parse_datetime(text, fmt) ==
    IF fmt = "datetime" /\ text.date.kind = "num" /\ text.tod.kind = "num"
    THEN Parsed(LAdd(Days(text.date.v), FromInt(text.tod.v)))
    ELSE ParseError

\* NaiveTime::parse_from_str(end_ts, format)
\*     .map(|t| NaiveDate::from_ymd(1, 1, 1).and_time(t))
\* under either format: the text must match the whole format; date fields
\* are read and dropped, whether or not the calendar has such a day, and the
\* time goes on the anchor date
parse_time_on_anchor(text, fmt) ==
    IF /\ text.tod.kind = "num"
       /\ \/ fmt = "time" /\ text.date.kind = "absent"
          \/ fmt = "datetime" /\ text.date.kind \in {"num", "nosuchdate"}
    THEN Parsed(FromInt(text.tod.v))
    ELSE ParseError

\* the two-stage parse of lines 129-133
parse_end_ts(text, fmt) ==
    IF parse_datetime(text, fmt).ok
    THEN parse_datetime(text, fmt)
    ELSE parse_time_on_anchor(text, fmt)

\* color_regex_set.matches(&line).iter().next(): the lowest matching index
first_color(l) ==
    CHOOSE c \in l.colors : \A d \in l.colors : c <= d

\* Duration::num_seconds: whole seconds, truncated toward zero
num_seconds(d) ==
    IF d.hi >= 0 THEN LDiv(d, TicksPerSecond)
    ELSE LNeg(LDiv(LNeg(d), TicksPerSecond))

Max(a, b) == IF a >= b THEN a ELSE b

\* `end_ts - dur` of line 145
start_of(l, fmt) ==
    LSub(parse_end_ts(l.ts, fmt).t, parse_duration(first_duration_match(l)))

\* (mutant) a line no color rule matches is passed over
classify_skip_uncolored(l, fmt) ==
    IF ~first_duration_match(l).matched THEN "skip"
    ELSE IF ~l.ts.matched THEN "skip"
    ELSE IF ~get_str(l.ts) THEN "panic"
    ELSE IF ~parse_end_ts(l.ts, fmt).ok THEN "fatal_ts"
    ELSE IF LLess(parse_duration(first_duration_match(l)), cutoff) THEN "skip"
    ELSE IF l.colors = {} THEN "skip"
    ELSE IF LLess(start_of(l, fmt), MIN_DATETIME) THEN "panic"
    ELSE "accept"

\* (mutant) a duration line without a timestamp is an error
classify_ts_required(l, fmt) ==
    IF ~first_duration_match(l).matched THEN "skip"
    ELSE IF ~l.ts.matched THEN "fatal_ts"
    ELSE IF ~get_str(l.ts) THEN "panic"
    ELSE IF ~parse_end_ts(l.ts, fmt).ok THEN "fatal_ts"
    ELSE IF LLess(parse_duration(first_duration_match(l)), cutoff) THEN "skip"
    ELSE IF l.colors = {} THEN "fatal_color"
    ELSE IF LLess(start_of(l, fmt), MIN_DATETIME) THEN "panic"
    ELSE "accept"

\* (mutant) a duration equal to the cutoff is dropped too
classify_cutoff_inclusive(l, fmt) ==
    IF ~first_duration_match(l).matched THEN "skip"
    ELSE IF ~l.ts.matched THEN "skip"
    ELSE IF ~get_str(l.ts) THEN "panic"
    ELSE IF ~parse_end_ts(l.ts, fmt).ok THEN "fatal_ts"
    ELSE IF LLeq(parse_duration(first_duration_match(l)), cutoff) THEN "skip"
    ELSE IF l.colors = {} THEN "fatal_color"
    ELSE IF LLess(start_of(l, fmt), MIN_DATETIME) THEN "panic"
    ELSE "accept"

\* What one iteration of the ingest loop does with a line it has read:
\*   "skip"        the line adds nothing and the loop goes on
\*   "panic"       the unwrap() of line 128 finds no text of group 1, or the
\*                 subtraction of line 145 leaves the range of NaiveDateTime
\*   "fatal_ts"    the `?` of line 133 returns the parse error
\*   "fatal_color" the `?` of line 144 returns "no color specified for ..."
\*   "accept"      an Interval is pushed
classify(l, fmt) ==
    IF ~first_duration_match(l).matched THEN "skip"
    ELSE IF ~l.ts.matched THEN "skip"
    ELSE IF ~get_str(l.ts) THEN "panic"
    ELSE IF ~parse_end_ts(l.ts, fmt).ok THEN "fatal_ts"
    ELSE IF LLess(parse_duration(first_duration_match(l)), cutoff) THEN "skip"
    ELSE IF l.colors = {} THEN "fatal_color"
    ELSE IF LLess(start_of(l, fmt), MIN_DATETIME) THEN "panic"
    ELSE "accept"

\* the Interval pushed for an accepted line
new_interval(l, fmt) ==
    LET end_ts == parse_end_ts(l.ts, fmt).t
        dur == parse_duration(first_duration_match(l))
    IN  [start |-> LSub(end_ts, dur), end |-> end_ts, message |-> l,
         color |-> first_color(l), lane |-> 0]

\* (mutant) the comparison the wrong way round
lower_start_flipped(g, start_ts) == IF LLess(g, start_ts) THEN start_ts ELSE g

\* if start_ts < global_start_time { global_start_time = start_ts; }
lower_start(g, start_ts) == IF LLess(start_ts, g) THEN start_ts ELSE g

\* (mutant) the end of the latest line instead of the latest end
raise_end_overwrite(g, end_ts) == end_ts

\* if end_ts > global_end_time { global_end_time = end_ts; }
raise_end(g, end_ts) == IF LLess(g, end_ts) THEN end_ts ELSE g

\* (mutant) equal starts ordered by end ascending
key_le_end_ascending(a, b) ==
    \/ LLess(a.start, b.start)
    \/ a.start = b.start /\ LLeq(a.end, b.end)

\* the sort key (a.start, Reverse(a.end))
key_le(a, b) ==
    \/ LLess(a.start, b.start)
    \/ a.start = b.start /\ LLeq(b.end, a.end)

\* sort_unstable_by_key: every arrangement of s that is ordered by the key;
\* elements with equal keys may come out in any order.
RECURSIVE sorted_orders(_, _)
sorted_orders(s, rest) ==
    IF rest = {} THEN {<<>>}
    ELSE UNION {{<<s[i]>> \o t : t \in sorted_orders(s, rest \ {i})} :
                i \in {j \in rest : \A k \in rest : key_le(s[j], s[k])}}

\* the BTreeMap built at lines 170-174
initial_lanes(cols) ==
    [g \in {cols[c] : c \in DOMAIN cols} |-> [start_lane_id |-> 0, ends |-> <<>>]]

\* (mutant) an overlap of exactly the cutoff is tolerated too
reusable_inclusive(e, start) == LLeq(LSub(e, start), cutoff)

\* (mutant) the difference taken the other way round
reusable_reversed(e, start) == LLess(LSub(start, e), cutoff)

\* the filter of line 181: the lane whose remembered end is e can take an
\* interval that starts at start
reusable(e, start) == LLess(LSub(e, start), cutoff)

\* (mutant) the last lane that can take the interval instead of the first
last_fit(color_lanes, start) ==
    LET fits == {j \in DOMAIN color_lanes :
                    LLess(LSub(color_lanes[j], start), cutoff)}
    IN  IF fits = {} THEN 0 ELSE CHOOSE j \in fits : \A k \in fits : j >= k

\* .iter_mut().zip(0..).filter(..).next(): the first lane that can take the
\* interval, as an index into the lane list, or 0 when there is none
first_fit(color_lanes, start) ==
    LET fits == {j \in DOMAIN color_lanes : reusable(color_lanes[j], start)}
    IN  IF fits = {} THEN 0 ELSE CHOOSE j \in fits : \A k \in fits : j <= k

\* (mutant) a reused lane keeps the end it remembered
place_keep_end(color_lanes, interval) ==
    LET j == first_fit(color_lanes, interval.start)
    IN  IF j # 0 THEN color_lanes
        ELSE Append(color_lanes, interval.end)

\* the lane list of a group after the interval has been placed
place(color_lanes, interval) ==
    LET j == first_fit(color_lanes, interval.start)
    IN  IF j # 0 THEN [color_lanes EXCEPT ![j] = interval.end]
        ELSE Append(color_lanes, interval.end)

\* (mutant) lane ids counted from 1 when a lane is reused
placed_lane_one_based(color_lanes, interval) ==
    LET j == first_fit(color_lanes, interval.start)
    IN  IF j # 0 THEN j ELSE Len(color_lanes)

\* the lane id the interval gets (lane ids count from 0)
placed_lane(color_lanes, interval) ==
    LET j == first_fit(color_lanes, interval.start)
    IN  IF j # 0 THEN j - 1 ELSE Len(color_lanes)

RECURSIVE lane_count(_, _)
lane_count(ls, groups) ==
    IF groups = {} THEN 0
    ELSE LET g == CHOOSE h \in groups : TRUE
         IN  Len(ls[g].ends) + lane_count(ls, groups \ {g})

\* (mutant) the groups visited by descending id
start_lane_of_descending(ls, g) == lane_count(ls, {h \in DOMAIN ls : h > g})

\* lanes.values_mut() visits the groups by ascending id: a group starts at
\* the number of lanes of the groups visited before it
start_lane_of(ls, g) == lane_count(ls, {h \in DOMAIN ls : h < g})

\* the block written for an interval at lines 261-276
block_of(interval, ls, cols, gstart) ==
    [color |-> interval.color,
     start |-> interval.start,
     end |-> interval.end,
     msg |-> interval.message,
     top |-> num_seconds(LSub(interval.start, gstart)),
     height |-> num_seconds(LSub(interval.end, interval.start)),
     lane |-> interval.lane + ls[cols[interval.color]].start_lane_id]

----------------------------------------------------------------------------
(* Inputs *)

\* the indices of the color rules of the configuration
ColorRules == {1, 2}

\* captures of a duration rule: half a second, exactly the cutoff, 2.5 s,
\* "NaN" minutes with 5 seconds, "inf" seconds, and 2562047 hours with 1 s,
\* which is more nanoseconds than f64 holds exactly
ShortCaps == Caps(Absent, Absent, Num(1))
ExactCaps == Caps(Absent, Bad, Num(Seconds(1)))
LongCaps == Caps(Bad, Absent, Num(Seconds(2) + 1))
NaNCaps == Caps(Absent, NaN, Num(Seconds(5)))
InfCaps == Caps(Absent, Absent, PosInf)
AgesCaps == Caps(Num(Seconds(2562047)), Absent, Num(Seconds(1)))

DurMatches ==
    { <<NoMatch, NoMatch>>, <<ShortCaps, NoMatch>>, <<ExactCaps, NoMatch>>,
      <<NoMatch, LongCaps>>, <<ShortCaps, LongCaps>>, <<NaNCaps, NoMatch>> }

\* timestamps: a time of day alone, a date with a time of day, a day the
\* calendar does not have, text that is no date, text that is no time
TsTexts ==
    { TsText(Absent, Bad),
      TsText(Absent, Num(Seconds(10))),
      TsText(Absent, Num(Seconds(11))),
      TsText(Num(1), Num(Seconds(10))),
      TsText(NoSuchDate, Num(Seconds(11))),
      TsText(Bad, Num(Seconds(10))) }

\* the color rules that match a line: none, the second, both
ColorMatches == { {}, {2}, {1, 2} }

\* a line that took "inf" seconds
InfLine ==
    [durs |-> <<InfCaps, NoMatch>>, ts |-> TsText(Absent, Num(Seconds(10))),
     colors |-> {2}]

\* a line that took 2562047 hours and a second
AgesLine ==
    [durs |-> <<AgesCaps, NoMatch>>, ts |-> TsText(Absent, Num(Seconds(11))),
     colors |-> {1, 2}]

Lines ==
    [durs : DurMatches, ts : {NoMatch, TsNoGroup} \cup TsTexts,
     colors : ColorMatches]
    \cup {InfLine, AgesLine}

Configs == { <<1, 0>> }
Formats == { "datetime", "time" }

\* well-formed lines for the packing: one duration rule, a time of day, one
\* color rule
GoodLine(d, e, c) ==
    [durs |-> <<Caps(Absent, Absent, Num(d)), NoMatch>>,
     ts |-> TsText(Absent, Num(e)),
     colors |-> {c}]

PackLines ==
    { GoodLine(d, e, 1) :
        d \in {Seconds(1), Seconds(2), Seconds(5)},
        e \in {Seconds(5), Seconds(6) + 1, Seconds(12)} }
    \cup { GoodLine(Seconds(2), Seconds(6), 1) }
    \cup { GoodLine(Seconds(2), Seconds(6) + 1, 2) }

PackConfigs == { <<0, 0>>, <<1, 0>> }

GroupLines ==
    { GoodLine(Seconds(2), e, c) : e \in {Seconds(5), Seconds(6)}, c \in ColorRules }

GroupConfigs == { <<0, 1>>, <<2, 0>>, <<1, 1>> }

----------------------------------------------------------------------------
(* The state machine *)

InitWith(configs, formats) ==
    /\ colors \in configs
    /\ format \in formats
    /\ pc = "ingest"
    /\ line = NoLine
    /\ nread = 0
    /\ intervals = <<>>
    /\ global_start_time = MAX_DATETIME
    /\ global_end_time = MIN_DATETIME
    /\ global_duration = FromInt(0)
    /\ lanes = <<>>
    /\ total_lanes = 0
    /\ idx = 0
    /\ out = <<>>
    /\ err = NoError

Init == InitWith(Configs, Formats)

\* one iteration of the loop of lines 119-162: the read gives the line l, or
\* it gives an io error, which the `?` of line 120 returns
ReadLine(l, max) ==
    /\ pc = "ingest"
    /\ nread < max
    /\ \/ /\ line' = l
          /\ nread' = nread + 1
          /\ LET what == classify(l, format)
                 iv == new_interval(l, format)
             IN  /\ pc' = CASE what \in {"fatal_ts", "fatal_color"} -> "failed"
                            [] what = "panic" -> "panicked"
                            [] OTHER -> "ingest"
                 /\ err' = CASE what = "fatal_ts" -> [kind |-> "timestamp parse error"]
                             [] what = "fatal_color" ->
                                   [kind |-> "no color specified for", line |-> l]
                             [] what = "panic" -> [kind |-> "panic"]
                             [] OTHER -> NoError
                 /\ intervals' = IF what = "accept" THEN Append(intervals, iv)
                                 ELSE intervals
                 /\ global_start_time' =
                       IF what = "accept" THEN lower_start(global_start_time, iv.start)
                       ELSE global_start_time
                 /\ global_end_time' =
                       IF what = "accept" THEN raise_end(global_end_time, iv.end)
                       ELSE global_end_time
       \/ /\ line' = NoLine
          /\ pc' = "failed"
          /\ err' = [kind |-> "read error"]
          /\ UNCHANGED <<nread, intervals, global_start_time, global_end_time>>
    /\ UNCHANGED <<colors, format, global_duration, lanes, total_lanes, idx, out>>

Ingest == \E l \in Lines : ReadLine(l, MaxLines)

\* the input is exhausted: lines 164-174
EndOfInput ==
    /\ pc = "ingest"
    /\ pc' = "pack"
    /\ line' = NoLine
    /\ global_duration' = num_seconds(LSub(global_end_time, global_start_time))
    /\ intervals' \in sorted_orders(intervals, DOMAIN intervals)
    /\ lanes' = initial_lanes(colors)
    /\ idx' = 1
    /\ UNCHANGED <<colors, format, nread, global_start_time, global_end_time,
                   total_lanes, out, err>>

\* one iteration of the loop of lines 175-190
PackStep ==
    /\ pc = "pack"
    /\ idx <= Len(intervals)
    /\ LET interval == intervals[idx]
           group == colors[interval.color]
           color_lanes == lanes[group].ends
       IN  /\ lanes' = [lanes EXCEPT ![group].ends = place(color_lanes, interval)]
           /\ intervals' = [intervals EXCEPT ![idx].lane = placed_lane(color_lanes, interval)]
    /\ idx' = idx + 1
    /\ UNCHANGED <<colors, format, pc, line, nread, global_start_time,
                   global_end_time, global_duration, total_lanes, out, err>>

\* the loop of lines 192-196
AssignOffsets ==
    /\ pc = "pack"
    /\ idx > Len(intervals)
    /\ lanes' = [g \in DOMAIN lanes |->
                    [lanes[g] EXCEPT !.start_lane_id = start_lane_of(lanes, g)]]
    /\ total_lanes' = lane_count(lanes, DOMAIN lanes)
    /\ pc' = "header"
    /\ UNCHANGED <<colors, format, line, nread, intervals, global_start_time,
                   global_end_time, global_duration, idx, out, err>>

\* stdout refuses a write: the `?` after the writeln! returns the io error
\* and the output ends where the write failed, before the piece that was
\* being written or inside it
write_error(inside) ==
    /\ out' = IF inside THEN Append(out, [kind |-> "cut"]) ELSE out
    /\ pc' = "failed"
    /\ err' = [kind |-> "write error"]

\* (mutant) the head of the document written before the log is read
EmitHeader_before_ingest ==
    /\ pc = "ingest"
    /\ out = <<>>
    /\ out' = Append(out, [kind |-> "header",
                           width |-> Max(MIN_GLOBAL_WIDTH, total_lanes * LANE_WIDTH),
                           height |-> global_duration,
                           lane_width |-> LANE_WIDTH,
                           colors |-> Len(colors)])
    /\ UNCHANGED <<colors, format, pc, line, nread, intervals, global_start_time,
                   global_end_time, global_duration, lanes, total_lanes, idx, err>>

\* lines 198-259: the head of the document, the color table, "var blocks = ["
EmitHeader ==
    /\ pc = "header"
    /\ \/ /\ out' = Append(out, [kind |-> "header",
                                 width |-> Max(MIN_GLOBAL_WIDTH, total_lanes * LANE_WIDTH),
                                 height |-> global_duration,
                                 lane_width |-> LANE_WIDTH,
                                 colors |-> Len(colors)])
          /\ pc' = "blocks"
          /\ idx' = 1
          /\ UNCHANGED err
       \/ /\ \E inside \in BOOLEAN : write_error(inside)
          /\ UNCHANGED idx
    /\ UNCHANGED <<colors, format, line, nread, intervals, global_start_time,
                   global_end_time, global_duration, lanes, total_lanes>>

\* one iteration of the loop of lines 261-276
EmitBlock ==
    /\ pc = "blocks"
    /\ idx <= Len(intervals)
    /\ \/ /\ out' = Append(out, [kind |-> "block",
                                 block |-> block_of(intervals[idx], lanes, colors,
                                                    global_start_time)])
          /\ idx' = idx + 1
          /\ UNCHANGED <<pc, err>>
       \/ /\ \E inside \in BOOLEAN : write_error(inside)
          /\ UNCHANGED idx
    /\ UNCHANGED <<colors, format, line, nread, intervals, global_start_time,
                   global_end_time, global_duration, lanes, total_lanes>>

\* lines 278-381: the rest of the script, then Ok(())
EmitFooter ==
    /\ pc = "blocks"
    /\ idx > Len(intervals)
    /\ \/ /\ out' = Append(out, [kind |-> "footer"])
          /\ pc' = "done"
          /\ UNCHANGED err
       \/ \E inside \in BOOLEAN : write_error(inside)
    /\ UNCHANGED <<colors, format, line, nread, intervals, global_start_time,
                   global_end_time, global_duration, lanes, total_lanes, idx>>

Pipeline ==
    \/ EndOfInput
    \/ PackStep
    \/ AssignOffsets
    \/ EmitHeader
    \/ EmitBlock
    \/ EmitFooter

Next == Ingest \/ Pipeline

Spec == Init /\ [][Next]_vars

\* the packing, on logs of well-formed lines of one group
InitPack == InitWith(PackConfigs, {"time"})
IngestPack == \E l \in PackLines : ReadLine(l, MaxPackLines)
NextPack == IngestPack \/ Pipeline
SpecPack == InitPack /\ [][NextPack]_vars

\* the group offsets, on longer logs of well-formed lines of two colors
InitGroups == InitWith(GroupConfigs, {"time"})
IngestGroups == \E l \in GroupLines : ReadLine(l, MaxGroupLines)
NextGroups == IngestGroups \/ Pipeline
SpecGroups == InitGroups /\ [][NextGroups]_vars

----------------------------------------------------------------------------
(* Claims *)

\* every interval has been given its lane
Packed ==
    \/ pc = "pack" /\ idx > Len(intervals)
    \/ pc \in {"header", "blocks", "done"}

\* the group of the i-th interval
GroupOf(i) == colors[intervals[i].color]

\* Scenario A: the log holds two events of one category, one of 5 s and one
\* of 2 s, whose starts are 10 s apart, the later one starting after the
\* earlier one has ended
ScenarioA ==
    /\ Packed
    /\ Len(intervals) = 2
    /\ intervals[1].color = intervals[2].color
    /\ {LSub(intervals[1].end, intervals[1].start),
        LSub(intervals[2].end, intervals[2].start)}
          = {FromInt(Seconds(5)), FromInt(Seconds(2))}
    /\ LSub(intervals[2].start, intervals[1].start) = FromInt(Seconds(10))
    /\ LLess(cutoff, LSub(intervals[2].start, intervals[1].end))

\* C1 (as stated): in Scenario A the two events get two distinct lanes.
C1_ScenarioA_DistinctLanes ==
    ScenarioA => intervals[1].lane # intervals[2].lane

\* C1 (amended): in Scenario A the two events share one lane, lane 0 of their
\* group: the lane of the first event is free again when the second starts.
C1_ScenarioA_SameLane ==
    ScenarioA => intervals[1].lane = 0 /\ intervals[2].lane = 0

C1_Witness ==
    /\ ScenarioA
    /\ pc = "done"
    /\ out[2].block.lane = out[3].block.lane

\* a step of the packing loop
Placing == pc = "pack" /\ idx <= Len(intervals) /\ idx' = idx + 1

\* C2 (as stated): when an event is placed, no lane of its group other than
\* the one it is placed in satisfies  lane end - event start < cutoff.
C2_NoOtherLaneReusable ==
    [][Placing =>
        \A j \in DOMAIN lanes[GroupOf(idx)].ends :
            j - 1 # intervals'[idx].lane
                => ~LLess(LSub(lanes[GroupOf(idx)].ends[j], intervals[idx].start),
                          cutoff)]_vars

\* C2 (amended): when an event is placed, no lane of its group created before
\* the one it is placed in (every lane of the group, when it opens a new one)
\* satisfies  lane end - event start < cutoff; lanes created later may.
C2_NoEarlierLaneReusable ==
    [][Placing =>
        \A j \in DOMAIN lanes[GroupOf(idx)].ends :
            j - 1 < intervals'[idx].lane
                => ~LLess(LSub(lanes[GroupOf(idx)].ends[j], intervals[idx].start),
                          cutoff)]_vars

\* an event has reused the second lane of its group, passing over the first
C2_Witness ==
    /\ pc = "pack"
    /\ \E i, k \in 1..(idx - 1) :
          /\ i < k
          /\ GroupOf(i) = GroupOf(k)
          /\ intervals[i].lane = 1
          /\ intervals[k].lane = 1

\* the ingest loop has just processed `line`
JustRead == pc \in {"ingest", "failed", "panicked"} /\ nread > 0

\* the duration the first matching duration rule gives for the line
WinningDuration(l) == parse_duration(first_duration_match(l))

\* C3 (as stated): a line whose winning duration rule yields less than the
\* cutoff is skipped: it adds no event and never aborts the run.
C3_ShortLineIsSkipped ==
    (/\ JustRead
     /\ first_duration_match(line).matched
     /\ LLess(WinningDuration(line), cutoff))
        => /\ pc = "ingest"
           /\ err = NoError
           /\ \A i \in DOMAIN intervals : intervals[i].message # line

\* C4 (as stated): with no accepted event, the global duration handed to the
\* emitter is zero (or the run has reported an error and emits nothing).
C4_EmptyRunHasZeroDuration ==
    (Len(intervals) = 0 /\ out # <<>> /\ out[1].kind = "header")
        => out[1].height = FromInt(0)

\* C5 (as stated): a line that matches a duration rule and the timestamp
\* rule (its timestamp being well-formed) but no color rule aborts the run
\* with an error naming the line.
C5_UncoloredLineAborts ==
    (/\ JustRead
     /\ first_duration_match(line).matched
     /\ line.ts.matched
     /\ parse_end_ts(line.ts, format).ok
     /\ line.colors = {})
        => /\ pc = "failed"
           /\ err = [kind |-> "no color specified for", line |-> line]

\* C5 (amended): a line that matches a duration rule with a duration of at
\* least the cutoff, whose timestamp matches and parses, and that matches no
\* color rule aborts the run with an error naming the line: it is no event,
\* and nothing runs after it.
C5_ChartableUncoloredLineAborts ==
    (/\ JustRead
     /\ first_duration_match(line).matched
     /\ line.ts.matched
     /\ parse_end_ts(line.ts, format).ok
     /\ ~LLess(WinningDuration(line), cutoff)
     /\ line.colors = {})
        => /\ pc = "failed"
           /\ err = [kind |-> "no color specified for", line |-> line]
           /\ \A i \in DOMAIN intervals : intervals[i].message # line
           /\ out = <<>>
           /\ ~ENABLED Next

\* the run aborted on an uncolored line after having accepted an event
C5_Witness ==
    /\ pc = "failed"
    /\ err.kind = "no color specified for"
    /\ err.line = line
    /\ line.colors = {}
    /\ Len(intervals) >= 1

\* C6: reading a line that matches a duration rule but not the timestamp
\* pattern adds no event, raises no error and leaves the loop running,
\* whatever its duration and its color matches.
C6_NoTimestampLineDropped ==
    [][(/\ pc = "ingest"
        /\ nread' = nread + 1
        /\ first_duration_match(line').matched
        /\ ~line'.ts.matched)
          => /\ pc' = "ingest"
             /\ err' = NoError
             /\ intervals' = intervals
             /\ global_start_time' = global_start_time
             /\ global_end_time' = global_end_time
             /\ out' = out]_vars

\* such a line, of chartable duration and matching a color rule, has been
\* read after an accepted event and the loop goes on
C6_Witness ==
    /\ pc = "ingest"
    /\ nread >= 2
    /\ first_duration_match(line).matched
    /\ ~LLess(WinningDuration(line), cutoff)
    /\ ~line.ts.matched
    /\ line.colors # {}
    /\ Len(intervals) = nread - 1

\* C7: once an event is accepted, every accepted event has end >= start,
\* global_start_time is the least start and global_end_time the greatest end
\* of the accepted events; a skipped line changes neither.
C7_GlobalRangeIsMinMax ==
    Len(intervals) >= 1 =>
        /\ \A i \in DOMAIN intervals : LLeq(intervals[i].start, intervals[i].end)
        /\ \E i \in DOMAIN intervals : intervals[i].start = global_start_time
        /\ \A i \in DOMAIN intervals : LLeq(global_start_time, intervals[i].start)
        /\ \E i \in DOMAIN intervals : intervals[i].end = global_end_time
        /\ \A i \in DOMAIN intervals : LLeq(intervals[i].end, global_end_time)

\* a skipped line has been read after two accepted ones, the later of which
\* holds neither extremum
C7_Witness ==
    /\ pc = "ingest"
    /\ Len(intervals) = 2
    /\ nread = 3
    /\ LLess(global_start_time, intervals[2].start)
    /\ LLess(intervals[2].end, global_end_time)

\* C8: every event of the list, and every block written, has
\* end = start + duration with duration >= cutoff, the duration being that
\* of its line; a line of exactly the cutoff is accepted.
C8_EventsLastAtLeastCutoff ==
    /\ \A i \in DOMAIN intervals :
          /\ intervals[i].end
                = LAdd(intervals[i].start, WinningDuration(intervals[i].message))
          /\ LLeq(cutoff, LSub(intervals[i].end, intervals[i].start))
    /\ \A k \in DOMAIN out :
          out[k].kind = "block"
              => LLeq(cutoff, LSub(out[k].block.end, out[k].block.start))
    /\ (/\ JustRead
        /\ first_duration_match(line).matched
        /\ WinningDuration(line) = cutoff
        /\ line.ts.matched
        /\ parse_end_ts(line.ts, format).ok
        /\ line.colors # {})
          => /\ Len(intervals) >= 1
             /\ intervals[Len(intervals)].message = line
             /\ LSub(intervals[Len(intervals)].end, intervals[Len(intervals)].start)
                   = cutoff

\* an event of exactly the cutoff has been written, and a shorter line was
\* read without becoming an event
C8_Witness ==
    /\ pc = "done"
    /\ nread > Len(intervals)
    /\ \E k \in DOMAIN out :
          /\ out[k].kind = "block"
          /\ LSub(out[k].block.end, out[k].block.start) = cutoff

\* the final lane of the i-th interval: line 274
FinalLane(i) == intervals[i].lane + lanes[GroupOf(i)].start_lane_id

OffsetsAssigned == pc \in {"header", "blocks", "done"}

\* C9: after the offset loop, a group starts at the number of lanes of the
\* groups of smaller id, every event's final lane lies in the range of its
\* group, every number below total_lanes is the final lane of some event,
\* events of different groups never share a final lane, and the blocks
\* written carry these final lanes.
C9_LanesDenseAndGroupContiguous ==
    OffsetsAssigned =>
        /\ \A g \in DOMAIN lanes :
              lanes[g].start_lane_id = lane_count(lanes, {h \in DOMAIN lanes : h < g})
        /\ total_lanes = lane_count(lanes, DOMAIN lanes)
        /\ \A i \in DOMAIN intervals :
              /\ FinalLane(i) >= lanes[GroupOf(i)].start_lane_id
              /\ FinalLane(i) < lanes[GroupOf(i)].start_lane_id + Len(lanes[GroupOf(i)].ends)
        /\ \A n \in 0..(total_lanes - 1) : \E i \in DOMAIN intervals : FinalLane(i) = n
        /\ \A i, j \in DOMAIN intervals :
              GroupOf(i) # GroupOf(j) => FinalLane(i) # FinalLane(j)
        /\ \A k \in DOMAIN out :
              out[k].kind = "block" => out[k].block.lane = FinalLane(k - 1)

\* Scenario E: groups 0 and 1 need three lanes each and get [0,3) and [3,6)
C9_Witness ==
    /\ pc = "done"
    /\ colors = <<0, 1>>
    /\ Len(lanes[0].ends) = 3
    /\ Len(lanes[1].ends) = 3
    /\ lanes[0].start_lane_id = 0
    /\ lanes[1].start_lane_id = 3
    /\ total_lanes = 6
    /\ {out[k].block.lane : k \in 2..7} = 0..5

\* the errors of the ingest loop: a timestamp that does not parse, a line no
\* color rule matches, a failed read, a panic
IngestErrors ==
    {"timestamp parse error", "no color specified for", "read error", "panic"}

\* C10: nothing is written before the input is exhausted and every lane and
\* every group offset is assigned; a run that aborts while reading has
\* written nothing.
C10_NoOutputBeforePacking ==
    /\ out # <<>> =>
          /\ pc \in {"blocks", "done", "failed"}
          /\ err.kind \in {"none", "write error"}
          /\ total_lanes = lane_count(lanes, DOMAIN lanes)
          /\ \A i \in DOMAIN intervals :
                intervals[i].lane < Len(lanes[GroupOf(i)].ends)
    /\ err.kind \in IngestErrors => out = <<>> /\ pc \in {"failed", "panicked"}
    /\ pc \in {"failed", "panicked"} => err # NoError

\* the run aborted on a line that gives no event, after having accepted an
\* event, and wrote nothing
C10_Witness ==
    /\ pc = "failed"
    /\ err.kind \in {"timestamp parse error", "no color specified for"}
    /\ Len(intervals) >= 1
    /\ out = <<>>

\* the lanes of a list that satisfy  lane end - start < cutoff
Fits(ends, start) == {j \in DOMAIN ends : LLess(LSub(ends[j], start), cutoff)}

\* C11: an event is placed in the first lane of its group with
\* lane end - event start < cutoff, and in a new lane, whose index is the
\* lane count of the group, only when there is none; the chosen lane then
\* remembers the event's end, and nothing else changes: not the other lanes
\* of the group, not the lanes of other groups, not the other events.
C11_GreedyFirstFit ==
    [][Placing =>
        LET g == GroupOf(idx)
            ends == lanes[g].ends
            iv == intervals[idx]
            chosen == intervals'[idx].lane
            after == lanes'[g].ends
        IN  /\ Fits(ends, iv.start) # {} =>
                  /\ chosen + 1 \in Fits(ends, iv.start)
                  /\ \A j \in Fits(ends, iv.start) : chosen + 1 <= j
                  /\ Len(after) = Len(ends)
            /\ Fits(ends, iv.start) = {} =>
                  /\ chosen = Len(ends)
                  /\ Len(after) = Len(ends) + 1
            /\ after[chosen + 1] = iv.end
            /\ \A j \in DOMAIN ends : j # chosen + 1 => after[j] = ends[j]
            /\ \A h \in DOMAIN lanes : h # g => lanes'[h] = lanes[h]
            /\ DOMAIN lanes' = DOMAIN lanes
            /\ intervals' = [intervals EXCEPT ![idx].lane = chosen]]_vars

\* Scenario B: two events of one category overlap by half a second; they
\* share lane 0, which remembers the end of the one processed later
C11_Witness ==
    /\ pc = "pack"
    /\ idx = 3
    /\ Len(intervals) = 2
    /\ intervals[1].color = intervals[2].color
    /\ LScale(LSub(intervals[1].end, intervals[2].start), 2) = FromInt(Seconds(1))
    /\ intervals[1].lane = 0
    /\ intervals[2].lane = 0
    /\ lanes[GroupOf(2)].ends = <<intervals[2].end>>

\* the input is exhausted and the list is sorted
Sorted == pc \in {"pack", "header", "blocks", "done"}

\* C12: the packing loop takes the events by start ascending and, for equal
\* starts, by end descending, whatever the order of the log lines: of two
\* events processed one after the other, the earlier has start <= the
\* later's start and, on equal starts, end >= the later's end.
C12_ProcessedInSortedOrder ==
    Sorted =>
        \A i \in 1..(Len(intervals) - 1) :
            /\ LLeq(intervals[i].start, intervals[i + 1].start)
            /\ intervals[i].start = intervals[i + 1].start
                  => LLeq(intervals[i + 1].end, intervals[i].end)

\* two events that start together and end apart have been packed, the
\* longer one first, before an event that starts later
C12_Witness ==
    /\ pc = "pack"
    /\ idx = 4
    /\ Len(intervals) = 3
    /\ intervals[1].start = intervals[2].start
    /\ LLess(intervals[2].end, intervals[1].end)
    /\ LLess(intervals[2].start, intervals[3].start)

\* the first duration rule that matches the line (0: none does)
WinningRule(l) ==
    IF \A i \in DOMAIN l.durs : ~l.durs[i].matched THEN 0
    ELSE CHOOSE i \in DOMAIN l.durs :
            /\ l.durs[i].matched
            /\ \A j \in DOMAIN l.durs : l.durs[j].matched => i <= j

\* a line is read in this step
Reading == pc = "ingest" /\ nread' = nread + 1

\* C13: the duration of a line is that of the first duration rule that
\* matches it: an event pushed for the line lasts that long, and when that
\* duration is below the cutoff the line becomes no event, even when a later
\* rule matches with a chartable duration; a line no rule matches is passed
\* over without error.
C13_FirstDurationRuleWins ==
    [][Reading =>
        LET k == WinningRule(line')
        IN  /\ k = 0 =>
                  /\ intervals' = intervals
                  /\ pc' = "ingest"
                  /\ err' = NoError
            /\ (k # 0 /\ LLess(parse_duration(line'.durs[k]), cutoff)) =>
                  intervals' = intervals
            /\ intervals' # intervals =>
                  /\ k # 0
                  /\ Len(intervals') = Len(intervals) + 1
                  /\ intervals'[Len(intervals')].message = line'
                  /\ LSub(intervals'[Len(intervals')].end,
                          intervals'[Len(intervals')].start)
                        = parse_duration(line'.durs[k])]_vars

\* a line whose first rule gives half a second and whose second rule gives a
\* chartable duration was read, with a good timestamp and a color, after an
\* accepted event: it is no event and the loop goes on
C13_Witness ==
    /\ pc = "ingest"
    /\ nread = 2
    /\ Len(intervals) = 1
    /\ line.durs[1].matched
    /\ LLess(parse_duration(line.durs[1]), cutoff)
    /\ line.durs[2].matched
    /\ LLeq(cutoff, parse_duration(line.durs[2]))
    /\ line.ts.matched
    /\ parse_end_ts(line.ts, format).ok
    /\ line.colors # {}

\* the lane list after a placement that merges the remembered end by max
\* instead of overwriting it
PlaceByMax(ends, iv) ==
    IF Fits(ends, iv.start) = {} THEN Append(ends, iv.end)
    ELSE LET j == CHOOSE f \in Fits(ends, iv.start) :
                     \A k \in Fits(ends, iv.start) : f <= k
         IN  [ends EXCEPT ![j] = IF LLess(ends[j], iv.end) THEN iv.end ELSE ends[j]]

\* C14: no placement lowers the remembered end of a lane; an event that
\* reuses a lane ends strictly after the end the lane remembered, so the
\* lane list after the placement is the one merging by max would give.
C14_LaneEndNeverDecreases ==
    [][Placing =>
        LET g == GroupOf(idx)
            ends == lanes[g].ends
            iv == intervals[idx]
            after == lanes'[g].ends
        IN  /\ \A j \in DOMAIN ends : LLeq(ends[j], after[j])
            /\ Len(after) = Len(ends)
                  => LLess(ends[intervals'[idx].lane + 1], iv.end)
            /\ after = PlaceByMax(ends, iv)]_vars

\* a lane has been reused twice, once by an event that starts before the end
\* the lane remembered
C14_Witness ==
    /\ pc = "pack"
    /\ \E i, j, k \in 1..(idx - 1) :
          /\ i < j /\ j < k
          /\ GroupOf(i) = GroupOf(j) /\ GroupOf(j) = GroupOf(k)
          /\ intervals[i].lane = intervals[j].lane
          /\ intervals[j].lane = intervals[k].lane
          /\ LLess(intervals[j].start, intervals[i].end)
          /\ lanes[GroupOf(k)].ends[intervals[k].lane + 1] = intervals[k].end

\* C15: two events with the same final lane overlap by less than the
\* cutoff: the end of the one processed earlier, less the start of the one
\* processed later, is below the cutoff, whether or not other events were
\* placed in the lane between them.
C15_SameLaneOverlapBelowCutoff ==
    OffsetsAssigned =>
        \A i, k \in DOMAIN intervals :
            (i < k /\ FinalLane(i) = FinalLane(k))
                => LLess(LSub(intervals[i].end, intervals[k].start), cutoff)

\* three events share a final lane that is not lane 0, the first and the
\* last of them being no neighbours in the lane
C15_Witness ==
    /\ pc = "done"
    /\ \E i, j, k \in DOMAIN intervals :
          /\ i < j /\ j < k
          /\ FinalLane(i) = FinalLane(j)
          /\ FinalLane(j) = FinalLane(k)
          /\ FinalLane(k) >= 1
          /\ out[k + 1].block.lane = FinalLane(k)

\* C16: with an accepted event, every block written has top >= 0,
\* height >= 1 and top + height <= the global duration written in the head,
\* each in whole seconds.
C16_BlocksFitTimeAxis ==
    Len(intervals) >= 1 =>
        \A k \in DOMAIN out :
            out[k].kind = "block" =>
                /\ LLeq(FromInt(0), out[k].block.top)
                /\ LLeq(FromInt(1), out[k].block.height)
                /\ LLeq(LAdd(out[k].block.top, out[k].block.height), out[1].height)
                /\ out[1].height = global_duration

\* a block that starts a fraction of a second after the global start and
\* reaches the end of the axis has been written
C16_Witness ==
    /\ pc = "done"
    /\ \E k \in DOMAIN out :
          /\ out[k].kind = "block"
          /\ LScale(out[k].block.top, TicksPerSecond)
                # LSub(out[k].block.start, global_start_time)
          /\ LAdd(out[k].block.top, out[k].block.height) = out[1].height

====
